---- MODULE Spec2Model ----
(***************************************************************************)
(* Model of the Trello report pipeline: trello_board_app.py (main,         *)
(* generate_trello_report, create_agents, create_tasks) and                *)
(* config/trello_tools.py (BoardDataFetcherTool, CardDataFetcherTool).     *)
(*                                                                         *)
(* Several report requests (Streamlit sessions, or any other caller of     *)
(* generate_trello_report) run in one Python process and interleave at     *)
(* statement granularity.  os.environ is the one process-wide store.       *)
(* Crew.kickoff() is the library's default sequential process: the tasks   *)
(* of the crew run in list order, each executed by its own agent, an       *)
(* exception of a task leaves kickoff().  What an agent writes, whether    *)
(* it calls one of its tools, and what the Trello API answers are          *)
(* nondeterministic.                                                       *)
(***************************************************************************)
EXTENDS Integers, Sequences, FiniteSets, TLC

VARIABLES
    pc,        \* per request: the statement it is at
    args,      \* per request: the arguments generate_trello_report got
    env,       \* os.environ, shared by the whole process
    crew,      \* per request: the Crew built at lines 141-153
    stage,     \* per request: index of the task kickoff() is executing
    out,       \* per request: the task outputs produced so far
    req,       \* per request: the HTTP request in flight
    toolRet,   \* per request: what the last tool call handed to the agent
    nfetch,    \* per request: number of tool calls made in the current task
    got401,    \* per request: a board fetch was answered with HTTP 401
    chain,     \* per request: provenance log, one entry per started task
    result     \* per request: what generate_trello_report returned

vars == <<pc, args, env, crew, stage, out, req, toolRet, nfetch, got401, chain, result>>

----------------------------------------------------------------------------
(* Bounds *)

\* tool calls an agent may make while it executes one task
MaxFetches == 1

\* concurrent report requests
Runs == {"r1", "r2"}

----------------------------------------------------------------------------
(* Values *)

None == "<None>"          \* Python's None
Unset == "<unset>"        \* a key that is not in os.environ
NotReturned == "<running>"
NoArgs == [api_key |-> Unset, api_token |-> Unset, board_id |-> Unset]
NoReq == [tool |-> "none", key |-> Unset, token |-> Unset, id |-> Unset]
NoRet == [outcome |-> "none", value |-> "none", status |-> 0]
NoCrew == [agents |-> <<>>, tasks |-> <<>>]

CredA == [api_key |-> "keyA", api_token |-> "tokA", board_id |-> "boardA"]
CredB == [api_key |-> "keyB", api_token |-> "tokB", board_id |-> "boardB"]

\* what st.text_input can deliver: strings, possibly empty
CustomInputs == {CredA, CredB, [CredB EXCEPT !.board_id = ""]}

\* what any caller can pass to generate_trello_report
CallInputs == CustomInputs \cup {[CredB EXCEPT !.board_id = None]}

\* HTTP statuses the Trello API answers with
Statuses == {200, 401, 500}

CardIds == {"card1"}

\* raw text an agent can end a task with
Texts == {"", "text"}

\* Python truthiness of an optional string
Truthy(v) == v # None /\ v # ""

\* os.getenv(name): None when the key is not set
getenv(e, name) == IF e[name] = Unset THEN None ELSE e[name]

EnvUnset == [TRELLO_API_KEY |-> Unset, TRELLO_API_TOKEN |-> Unset, TRELLO_BOARD_ID |-> Unset]

\* the sample board's credentials of the .env file, as load_dotenv() sets them
EnvSample == [TRELLO_API_KEY |-> CredA.api_key, TRELLO_API_TOKEN |-> CredA.api_token,
              TRELLO_BOARD_ID |-> CredA.board_id]

----------------------------------------------------------------------------
(* Pure parts of the program *)

create_agents_analysis_with_tools ==
    [data_collection_agent |-> {"BoardFetch", "CardFetch"},
     analysis_agent |-> {"BoardFetch"}]

create_agents_collector_unbound ==
    [data_collection_agent |-> {},
     analysis_agent |-> {}]

\* create_agents: the tools each agent is constructed with
create_agents ==
    [data_collection_agent |-> {"BoardFetch", "CardFetch"},
     analysis_agent |-> {}]

\* create_tasks: the agent each task is bound to
create_tasks ==
    [data_collection |-> [name |-> "data_collection", agent |-> "data_collection_agent"],
     data_analysis |-> [name |-> "data_analysis", agent |-> "analysis_agent"],
     report_generation |-> [name |-> "report_generation", agent |-> "analysis_agent"]]

CrewTasksAnalysisFirst ==
    <<create_tasks.data_analysis, create_tasks.data_collection, create_tasks.report_generation>>

\* Crew(tasks=[data_collection, data_analysis, report_generation])
CrewTasks ==
    <<create_tasks.data_collection, create_tasks.data_analysis, create_tasks.report_generation>>

\* the value a fetcher's _run returns for a response status
ToolReturn(status) ==
    IF status = 200
    THEN [outcome |-> "returned", value |-> "response.json()", status |-> status]
    ELSE [outcome |-> "returned", value |-> "json.dumps({error})", status |-> status]

ResultRawFirstTask(outs) == outs[1].raw

\* result.raw: the raw text of the last task's output
ResultRaw(outs) == outs[Len(outs)].raw

OnExceptionPartial(outs) == IF outs = <<>> THEN None ELSE outs[Len(outs)].raw

\* except Exception: st.error(...); return None
OnException(outs) == None

\* the tools of the agent that executes the current task of request r
ToolsOf(r) == crew[r].agents[crew[r].tasks[stage[r]].agent]

\* provenance entry of the task started as number n of request r's crew,
\* with the previous task's raw output as its input context
Provenance(c, n, outs) ==
    [stage |-> c.tasks[n].name,
     caps |-> c.agents[c.tasks[n].agent],
     input |-> IF n = 1 THEN None ELSE outs[n - 1].raw]

----------------------------------------------------------------------------
(* Initial state *)

Init ==
    /\ pc = [r \in Runs |-> "Idle"]
    /\ args = [r \in Runs |-> NoArgs]
    /\ env \in {EnvUnset, EnvSample}
    /\ crew = [r \in Runs |-> NoCrew]
    /\ stage = [r \in Runs |-> 0]
    /\ out = [r \in Runs |-> <<>>]
    /\ req = [r \in Runs |-> NoReq]
    /\ toolRet = [r \in Runs |-> NoRet]
    /\ nfetch = [r \in Runs |-> 0]
    /\ got401 = [r \in Runs |-> FALSE]
    /\ chain = [r \in Runs |-> <<>>]
    /\ result = [r \in Runs |-> NotReturned]

----------------------------------------------------------------------------
(* main(): the button handler *)

\* "Sample Board": credentials come from os.getenv; validated, then the call
MainSampleBoard(r) ==
    /\ pc[r] = "Idle"
    /\ LET c == [api_key |-> getenv(env, "TRELLO_API_KEY"),
                 api_token |-> getenv(env, "TRELLO_API_TOKEN"),
                 board_id |-> getenv(env, "TRELLO_BOARD_ID")]
       IN IF ~(Truthy(c.api_key) /\ Truthy(c.api_token) /\ Truthy(c.board_id))
          THEN /\ pc' = [pc EXCEPT ![r] = "Warned"]
               /\ UNCHANGED args
          ELSE /\ pc' = [pc EXCEPT ![r] = "L130"]
               /\ args' = [args EXCEPT ![r] = c]
    /\ UNCHANGED <<env, crew, stage, out, req, toolRet, nfetch, got401, chain, result>>

\* "My Trello Board": credentials come from the text inputs
MainCustomBoard(r, c) ==
    /\ pc[r] = "Idle"
    /\ IF ~(Truthy(c.api_key) /\ Truthy(c.api_token) /\ Truthy(c.board_id))
       THEN /\ pc' = [pc EXCEPT ![r] = "Warned"]
            /\ UNCHANGED args
       ELSE /\ pc' = [pc EXCEPT ![r] = "L130"]
            /\ args' = [args EXCEPT ![r] = c]
    /\ UNCHANGED <<env, crew, stage, out, req, toolRet, nfetch, got401, chain, result>>

----------------------------------------------------------------------------
(* generate_trello_report *)

\* entry of the function, whoever calls it: no check of its arguments
Call(r, c) ==
    /\ pc[r] = "Idle"
    /\ pc' = [pc EXCEPT ![r] = "L130"]
    /\ args' = [args EXCEPT ![r] = c]
    /\ UNCHANGED <<env, crew, stage, out, req, toolRet, nfetch, got401, chain, result>>

\* os.environ[name] = value: TypeError when value is None
SetEnv(r, at, name, value, next) ==
    /\ pc[r] = at
    /\ IF value = None
       THEN /\ pc' = [pc EXCEPT ![r] = "Raised"]
            /\ UNCHANGED env
       ELSE /\ env' = [env EXCEPT ![name] = value]
            /\ pc' = [pc EXCEPT ![r] = next]
    /\ UNCHANGED <<args, crew, stage, out, req, toolRet, nfetch, got401, chain, result>>

SetApiKey(r) == SetEnv(r, "L130", "TRELLO_API_KEY", args[r].api_key, "L131")
SetApiToken(r) == SetEnv(r, "L131", "TRELLO_API_TOKEN", args[r].api_token, "L132")
SetBoardId(r) == SetEnv(r, "L132", "TRELLO_BOARD_ID", args[r].board_id, "L135")

\* configs = load_yaml_configs(); if not configs: return None
\* (a missing file is not caught by load_yaml_configs and propagates)
LoadConfigs(r, outcome) ==
    /\ pc[r] = "L135"
    /\ CASE outcome = "ok" ->
              /\ pc' = [pc EXCEPT ![r] = "L141"]
              /\ UNCHANGED result
         [] outcome = "yaml_error" ->
              /\ pc' = [pc EXCEPT ![r] = "Returned"]
              /\ result' = [result EXCEPT ![r] = None]
         [] outcome = "file_missing" ->
              /\ pc' = [pc EXCEPT ![r] = "Raised"]
              /\ UNCHANGED result
    /\ UNCHANGED <<args, env, crew, stage, out, req, toolRet, nfetch, got401, chain>>

\* create_agents, create_tasks, Crew(...)
Build(r) ==
    /\ pc[r] = "L141"
    /\ crew' = [crew EXCEPT ![r] = [agents |-> create_agents, tasks |-> CrewTasks]]
    /\ pc' = [pc EXCEPT ![r] = "L156"]
    /\ UNCHANGED <<args, env, stage, out, req, toolRet, nfetch, got401, chain, result>>

\* crew.kickoff(): the first task starts
Kickoff(r) ==
    /\ pc[r] = "L156"
    /\ stage' = [stage EXCEPT ![r] = 1]
    /\ chain' = [chain EXCEPT ![r] = Append(@, Provenance(crew[r], 1, out[r]))]
    /\ pc' = [pc EXCEPT ![r] = "Exec"]
    /\ UNCHANGED <<args, env, crew, out, req, toolRet, nfetch, got401, result>>

\* the executing agent ends its task with a raw text; kickoff() goes on to the
\* next task of the list, or returns after the last one
TaskReturn(r, text) ==
    /\ pc[r] = "Exec"
    /\ LET outs == Append(out[r], [stage |-> crew[r].tasks[stage[r]].name, raw |-> text])
       IN /\ out' = [out EXCEPT ![r] = outs]
          /\ IF stage[r] < Len(crew[r].tasks)
             THEN /\ stage' = [stage EXCEPT ![r] = @ + 1]
                  /\ chain' = [chain EXCEPT ![r] =
                                 Append(@, Provenance(crew[r], stage[r] + 1, outs))]
                  /\ pc' = [pc EXCEPT ![r] = "Exec"]
             ELSE /\ pc' = [pc EXCEPT ![r] = "L157"]
                  /\ UNCHANGED <<stage, chain>>
    /\ toolRet' = [toolRet EXCEPT ![r] = NoRet]
    /\ nfetch' = [nfetch EXCEPT ![r] = 0]
    /\ UNCHANGED <<args, env, crew, req, got401, result>>

\* the executing agent's task raises: the exception leaves kickoff()
TaskRaise(r) ==
    /\ pc[r] = "Exec"
    /\ pc' = [pc EXCEPT ![r] = "Except"]
    /\ toolRet' = [toolRet EXCEPT ![r] = NoRet]
    /\ nfetch' = [nfetch EXCEPT ![r] = 0]
    /\ UNCHANGED <<args, env, crew, stage, out, req, got401, chain, result>>

\* return result.raw
ReturnRaw(r) ==
    /\ pc[r] = "L157"
    /\ result' = [result EXCEPT ![r] = ResultRaw(out[r])]
    /\ pc' = [pc EXCEPT ![r] = "Returned"]
    /\ UNCHANGED <<args, env, crew, stage, out, req, toolRet, nfetch, got401, chain>>

\* except Exception as e: st.error(...); return None
HandleException(r) ==
    /\ pc[r] = "Except"
    /\ result' = [result EXCEPT ![r] = OnException(out[r])]
    /\ pc' = [pc EXCEPT ![r] = "Returned"]
    /\ UNCHANGED <<args, env, crew, stage, out, req, toolRet, nfetch, got401, chain>>

----------------------------------------------------------------------------
(* The fetch tools *)

\* BoardDataFetcherTool._run up to requests.get: credentials and board id are
\* read from os.environ; a missing key raises KeyError inside the tool
BoardFetchCall(r) ==
    /\ pc[r] = "Exec"
    /\ "BoardFetch" \in ToolsOf(r)
    /\ nfetch[r] < MaxFetches
    /\ nfetch' = [nfetch EXCEPT ![r] = @ + 1]
    /\ IF Unset \in {env.TRELLO_API_KEY, env.TRELLO_API_TOKEN, env.TRELLO_BOARD_ID}
       THEN /\ toolRet' = [toolRet EXCEPT ![r] =
                             [outcome |-> "raised", value |-> "KeyError", status |-> 0]]
            /\ UNCHANGED <<pc, req>>
       ELSE /\ req' = [req EXCEPT ![r] =
                         [tool |-> "board", key |-> env.TRELLO_API_KEY,
                          token |-> env.TRELLO_API_TOKEN, id |-> env.TRELLO_BOARD_ID]]
            /\ pc' = [pc EXCEPT ![r] = "Await"]
            /\ UNCHANGED toolRet
    /\ UNCHANGED <<args, env, crew, stage, out, got401, chain, result>>

\* CardDataFetcherTool._run(card_id) up to requests.get
CardFetchCall(r, card_id) ==
    /\ pc[r] = "Exec"
    /\ "CardFetch" \in ToolsOf(r)
    /\ nfetch[r] < MaxFetches
    /\ nfetch' = [nfetch EXCEPT ![r] = @ + 1]
    /\ IF Unset \in {env.TRELLO_API_KEY, env.TRELLO_API_TOKEN}
       THEN /\ toolRet' = [toolRet EXCEPT ![r] =
                             [outcome |-> "raised", value |-> "KeyError", status |-> 0]]
            /\ UNCHANGED <<pc, req>>
       ELSE /\ req' = [req EXCEPT ![r] =
                         [tool |-> "card", key |-> env.TRELLO_API_KEY,
                          token |-> env.TRELLO_API_TOKEN, id |-> card_id]]
            /\ pc' = [pc EXCEPT ![r] = "Await"]
            /\ UNCHANGED toolRet
    /\ UNCHANGED <<args, env, crew, stage, out, got401, chain, result>>

\* requests.get returns a response; _run returns to the agent
ApiRespond(r, status) ==
    /\ pc[r] = "Await"
    /\ toolRet' = [toolRet EXCEPT ![r] = ToolReturn(status)]
    /\ got401' = [got401 EXCEPT ![r] = @ \/ (req[r].tool = "board" /\ status = 401)]
    /\ req' = [req EXCEPT ![r] = NoReq]
    /\ pc' = [pc EXCEPT ![r] = "Exec"]
    /\ UNCHANGED <<args, env, crew, stage, out, nfetch, chain, result>>

\* requests.get raises (connection refused, reset): the exception leaves _run
ApiConnectionError(r) ==
    /\ pc[r] = "Await"
    /\ toolRet' = [toolRet EXCEPT ![r] =
                     [outcome |-> "raised", value |-> "ConnectionError", status |-> 0]]
    /\ req' = [req EXCEPT ![r] = NoReq]
    /\ pc' = [pc EXCEPT ![r] = "Exec"]
    /\ UNCHANGED <<args, env, crew, stage, out, nfetch, got401, chain, result>>

----------------------------------------------------------------------------
(* Specification *)

\* the steps a started request takes on its own
Step(r) ==
    \/ SetApiKey(r)
    \/ SetApiToken(r)
    \/ SetBoardId(r)
    \/ \E o \in {"ok", "yaml_error", "file_missing"} : LoadConfigs(r, o)
    \/ Build(r)
    \/ Kickoff(r)
    \/ \E t \in Texts : TaskReturn(r, t)
    \/ TaskRaise(r)
    \/ ReturnRaw(r)
    \/ HandleException(r)

Next ==
    \E r \in Runs :
        \/ MainSampleBoard(r)
        \/ \E c \in CustomInputs : MainCustomBoard(r, c)
        \/ \E c \in CallInputs : Call(r, c)
        \/ Step(r)
        \/ BoardFetchCall(r)
        \/ \E id \in CardIds : CardFetchCall(r, id)
        \/ \E s \in Statuses : ApiRespond(r, s)
        \/ ApiConnectionError(r)

Spec == Init /\ [][Next]_vars

\* The interpreter schedules every started request; the Trello API and the
\* requests library owe no answer.
FairSpec == Spec /\ \A r \in Runs : WF_vars(Step(r))

----------------------------------------------------------------------------
(* Vocabulary of the properties *)

ExpectedOrder == <<"data_collection", "data_analysis", "report_generation">>

ExpectedChain ==
    <<[stage |-> "data_collection", caps |-> {"BoardFetch", "CardFetch"}],
      [stage |-> "data_analysis", caps |-> {}],
      [stage |-> "report_generation", caps |-> {}]>>

IsPrefix(s, t) == Len(s) <= Len(t) /\ \A i \in 1..Len(s) : s[i] = t[i]

StageNames(c) == [i \in 1..Len(c) |-> c[i].stage]

Bindings(c) == [i \in 1..Len(c) |-> [stage |-> c[i].stage, caps |-> c[i].caps]]

\* the pipeline states of the design, read off a request's position
Phase(r) ==
    CASE pc[r] \in {"Idle", "L130", "L131", "L132", "L135", "L141", "L156"} -> "Idle"
      [] pc[r] \in {"Exec", "Await"} -> <<"Collecting", "Analyzing", "Reporting">>[stage[r]]
      [] pc[r] = "L157" -> "Reporting"
      [] pc[r] = "Returned" /\ result[r] # None -> "Done"
      [] pc[r] = "Warned" -> "Rejected"
      [] OTHER -> "Failed"

\* a task of request r raised: kickoff() was left with a started task unfinished
StageRaised(r) == pc[r] \in {"Except", "Returned"} /\ Len(out[r]) < Len(chain[r])

\* all three tasks of request r returned
AllReturned(r) == pc[r] = "Returned" /\ Len(out[r]) = 3

----------------------------------------------------------------------------
(* Properties *)

\* C1: whenever the API answers a fetcher with a status that is not 2xx, what
\* the fetcher hands back is a FetchFailed error, not a returned value.
C1_NonSuccessIsFetchFailed ==
    \A r \in Runs :
        (toolRet[r].status # 0 /\ toolRet[r].status \notin 200..299)
            => toolRet[r].outcome = "FetchFailed"

\* C2: the tasks start in the order data_collection, data_analysis,
\* report_generation, and a task is started only when every task before it
\* has returned an output: while task n executes there are exactly n-1 outputs.
C2_StagesInOrderAfterSuccess ==
    \A r \in Runs :
        /\ IsPrefix(StageNames(chain[r]), ExpectedOrder)
        /\ IsPrefix(StageNames(out[r]), ExpectedOrder)
        /\ Len(chain[r]) <= Len(out[r]) + 1
        /\ pc[r] \in {"Exec", "Await"} =>
              /\ Len(chain[r]) = stage[r]
              /\ Len(out[r]) = stage[r] - 1

C2_Witness ==
    \E r \in Runs :
        /\ pc[r] = "Exec"
        /\ stage[r] = 3
        /\ StageNames(out[r]) = <<"data_collection", "data_analysis">>
        /\ chain[r][3].stage = "report_generation"

\* C3: a request whose board fetch was answered with HTTP 401 does not reach
\* Done: when generate_trello_report returns, it returns the error value.
C3_UnauthorizedEndsFailed ==
    \A r \in Runs :
        (got401[r] /\ pc[r] = "Returned") => (result[r] = None /\ Phase(r) = "Failed")

\* C4: every request in flight carries the api_key and api_token its own run
\* was called with, and a board request carries that run's board_id.
C4_RequestCarriesOwnCredentials ==
    \A r \in Runs :
        pc[r] = "Await" =>
            /\ req[r].key = args[r].api_key
            /\ req[r].token = args[r].api_token
            /\ req[r].tool = "board" => req[r].id = args[r].board_id

\* C5: a fetch (a tool call counted, a request in flight, a tool result held)
\* only ever exists while the data_collection task is executing; never during
\* data_analysis or report_generation.
C5_FetchOnlyWhileCollecting ==
    \A r \in Runs :
        (pc[r] = "Await" \/ nfetch[r] > 0 \/ toolRet[r] # NoRet \/ req[r] # NoReq)
            => /\ pc[r] \in {"Exec", "Await"}
               /\ crew[r].tasks[stage[r]].name = "data_collection"
               /\ Phase(r) = "Collecting"

C5_Witness ==
    \E r \in Runs :
        /\ pc[r] = "Await"
        /\ req[r].tool = "card"
        /\ crew[r].tasks[stage[r]].name = "data_collection"

\* C6: a request called with a missing board_id (empty or None) never starts a
\* task and never has a request to the API in flight.
C6_MissingBoardIdRejectedEarly ==
    \A r \in Runs :
        (args[r] # NoArgs /\ ~Truthy(args[r].board_id))
            => /\ chain[r] = <<>>
               /\ pc[r] \notin {"Exec", "Await", "L157"}
               /\ Phase(r) # "Done"

\* C7: once a task of a request has raised, no later task is started (the log
\* holds exactly the finished tasks and the one that raised), the request is
\* Failed, and what generate_trello_report returns is the error value None,
\* never the text of an earlier task.
C7_RaiseEndsFailedWithoutReport ==
    \A r \in Runs :
        StageRaised(r) =>
            /\ Len(chain[r]) = Len(out[r]) + 1
            /\ Phase(r) = "Failed"
            /\ result[r] \in {NotReturned, None}
            /\ pc[r] = "Returned" => result[r] = None

C7_Witness ==
    \E r \in Runs :
        /\ pc[r] = "Returned"
        /\ Len(out[r]) = 1
        /\ out[r][1].raw # ""
        /\ StageNames(chain[r]) = <<"data_collection", "data_analysis">>
        /\ result[r] = None

\* C8: every started request eventually ends (returns, or raises).
C8_EveryRunEnds ==
    \A r \in Runs :
        (pc[r] \notin {"Idle", "Warned"}) ~> (pc[r] \in {"Returned", "Raised"})

C10_SameProvenanceChain ==
    /\ \A r \in Runs :
          /\ IsPrefix(Bindings(chain[r]), ExpectedChain)
          /\ AllReturned(r) => Bindings(chain[r]) = ExpectedChain
          /\ crew[r] # NoCrew =>
                /\ crew[r].tasks[2].agent = crew[r].tasks[3].agent
                /\ crew[r].tasks[1].agent # crew[r].tasks[2].agent
    /\ \A r1, r2 \in Runs :
          (AllReturned(r1) /\ AllReturned(r2) /\ args[r1] = args[r2])
              => Bindings(chain[r1]) = Bindings(chain[r2])

C10_Witness ==
    \A r \in Runs :
        /\ AllReturned(r)
        /\ args[r] = CredA
        /\ Bindings(chain[r]) = ExpectedChain

====
